---- MODULE Spec2Model ----
(***************************************************************************)
(* QueueCTL: workers (src/worker.py) polling the SQLAlchemy `jobs` table   *)
(* (src/database.py) that the CLI (src/queuectl.py) fills.                 *)
(*                                                                         *)
(* The store is SQLite.  SQLAlchemy's SQLite dialect renders no FOR UPDATE *)
(* clause and the pysqlite driver opens a transaction only at the first    *)
(* DML statement, so every SELECT and every flush+commit of a session is a *)
(* separate atomic step on the table, and a flush is                       *)
(* `UPDATE jobs SET <changed columns> WHERE id = ?`.                       *)
(* updated_at is not modelled: no code reads it back.                      *)
(***************************************************************************)
EXTENDS Integers, FiniteSets, Sequences, TLC

\* ---------------------------------------------------------------- bounds
MaxRetries == 1
MaxTime == 2
MaxRuns == 2
MaxAttempts == 3
\* the longest delay `now + timedelta(seconds=delay)` can represent, in the
\* model's time unit
MaxDelay == 8

\* worker pids and job ids
Workers == {1, 2}
JobIds == {1}

\* process_pid / retry_at / last_error NULL, and an absent row
NoPid == 0
NoTime == -1
NoRow == [state |-> "absent"]
\* a call's result: None returned, or an exception raised
None == [value |-> "None"]
Raised(e) == [raised |-> e]
\* no row selected: `row` before the SELECT of fetch_and_lock_pending
NoJob == 0

\* what a command does when it is run under the job's timeout:
\* "true" exits 0, "false" exits non-zero, "flaky" exits either way,
\* "hang" runs longer than the timeout, "binary" exits with output that is
\* not UTF-8, which subprocess.run(text=True) raises UnicodeDecodeError on
Commands == {"true", "false", "flaky", "hang"}

\* the values given to `config set backoff-base`
BackoffBases == {1, 2}

VARIABLES
    jobs,       \* the jobs table: id -> row or NoRow
    config,     \* the config table entry 'backoff-base' (0: no entry)
    now,        \* wall clock, datetime.now(timezone.utc)
    pc,         \* each worker's position in Worker.run
    running,    \* Worker.running
    held,       \* the Job object a worker's code holds (a copy of a row)
    dlq,        \* the Job object `queuectl dlq retry` loaded, or NoRow
    runs,       \* history: executions started per (job, attempt number)
    sjobs,      \* the jobs table of JobStorage (src/storage.py)
    fetched,    \* the row each caller of fetch_and_lock_pending selected
    out,        \* what the last observed call returned, printed or raised
    hist,       \* history: per job, the backoff base in force at its enqueue
                \* and the delay of its last scheduled retry
    entries     \* the config table: key -> stored text (the queue above reads
                \* its 'backoff-base' entry through `config`)

vars == <<jobs, config, now, pc, running, held, dlq, runs, sjobs, fetched, out, hist, entries>>

\* the table of the other store, its callers, and the observed result
stores == <<sjobs, fetched, out>>

\* the queue of src/database.py with its workers and CLI commands
queue == <<jobs, config, now, pc, running, held, dlq, runs, hist, entries>>

\* the history is kept only by the specification that observes it
NoHistory == <<>>
Recorded(h) == IF hist = NoHistory THEN hist ELSE h

\* ------------------------------------------------------------ src/config.py
DEFAULTS == [k \in {"max-retries", "backoff-base", "log-level", "worker-timeout"} |->
                CASE k = "max-retries" -> 3
                  [] k = "backoff-base" -> 2
                  [] k = "log-level" -> "INFO"
                  [] k = "worker-timeout" -> 3600]

ALLOWED_KEYS == DOMAIN DEFAULTS

\* a key without a row in the config table
NoEntry == "<no entry>"

\* Config.get('backoff-base'): the stored entry, else the default
ConfigGetBackoff == IF config = 0 THEN DEFAULTS["backoff-base"] ELSE config

RECURSIVE Pow(_, _)
Pow(b, e) == IF e <= 0 THEN 1 ELSE b * Pow(b, e - 1)

\* a job that is not ready before the next tick of the clock
NewJobDelayed(id, command, max_retries) ==
    [id |-> id, command |-> command, state |-> "pending", attempts |-> 0,
     max_retries |-> max_retries, last_error |-> "null", process_pid |-> NoPid,
     created_at |-> now, retry_at |-> now + 1]

\* ---------------------------------------------------------- src/database.py
\* Job(command=..., state="pending", max_retries=...) with the column defaults
NewJob(id, command, max_retries) ==
    [id |-> id, command |-> command, state |-> "pending", attempts |-> 0,
     max_retries |-> max_retries, last_error |-> "null", process_pid |-> NoPid,
     created_at |-> now, retry_at |-> NoTime]

Present == {j \in DOMAIN jobs : jobs[j] # NoRow}

Init ==
    /\ jobs = [j \in JobIds |-> NoRow]
    /\ config = 0
    /\ now = 0
    /\ pc = [w \in Workers |-> "top"]
    /\ running = [w \in Workers |-> TRUE]
    /\ held = [w \in Workers |-> NoRow]
    /\ dlq = NoRow
    /\ runs = [j \in JobIds |-> [a \in 1..(MaxAttempts + 1) |-> 0]]
    /\ sjobs = <<>>
    /\ fetched = [c \in Workers |-> NoJob]
    /\ out = None
    /\ entries = [k \in ALLOWED_KEYS |-> NoEntry]
    /\ hist = NoHistory

\* ---------------------------------------------------------- src/queuectl.py
\* enqueue: a JSON object with a non-empty command and a max_retries field;
\* the id is a fresh uuid4: its order is unrelated to the creation order, and
\* no row and no object loaded by a process has it
enqueue(id, command, max_retries) ==
    /\ jobs[id] = NoRow
    /\ IF dlq = NoRow \/ dlq.state = "error" THEN TRUE ELSE dlq.id # id
    /\ \A w \in DOMAIN held : IF held[w] = NoRow THEN TRUE ELSE held[w].id # id
    /\ jobs' = [jobs EXCEPT ![id] = NewJob(id, command, max_retries)]
    /\ hist' = Recorded([hist EXCEPT ![id] = [base |-> ConfigGetBackoff, delay |-> 0]])
    /\ UNCHANGED <<config, now, pc, running, held, dlq, runs, stores, entries>>

\* a query that does not filter on the state
DeadJobAnyState(id) == jobs[id] # NoRow

\* dlq retry, the query: Job.id == job_id and Job.state == 'dead'
DeadJob(id) == jobs[id] # NoRow /\ jobs[id].state = "dead"

\* dlq retry, first() returns the job
DlqRetrySelect(id) ==
    /\ dlq = NoRow
    /\ DeadJob(id)
    /\ dlq' = jobs[id]
    /\ UNCHANGED <<jobs, config, now, pc, running, held, runs, stores, hist, entries>>

\* dlq retry, first() returns None: "Error: Dead job with ID ... not found."
DlqRetryNotFound(id) ==
    /\ dlq = NoRow
    /\ ~DeadJob(id)
    /\ dlq' = [state |-> "error", id |-> id]
    /\ UNCHANGED <<jobs, config, now, pc, running, held, runs, stores, hist, entries>>

\* dlq retry, the return after the error message
DlqRetryReturn ==
    /\ dlq # NoRow
    /\ dlq.state = "error"
    /\ dlq' = NoRow
    /\ UNCHANGED <<jobs, config, now, pc, running, held, runs, stores, hist, entries>>

\* a retry that also clears last_error and the lock owner and sets retry_at
RetryRowClearing(row, loaded) ==
    [row EXCEPT !.state = "pending", !.attempts = 0, !.last_error = "null",
                !.process_pid = NoPid, !.retry_at = now]

\* dlq retry, job.state = 'pending'; job.attempts = 0: the flush writes the
\* columns the handler changed on the object it loaded (state, and attempts
\* when it was not 0 already)
RetryRow(row, loaded) ==
    [row EXCEPT !.state = "pending",
                !.attempts = IF loaded.attempts = 0 THEN @ ELSE 0]

\* dlq retry, the commit; the UPDATE of a row that is gone matches no row, and
\* the StaleDataError of the flush ends the command with a rollback
DlqRetryCommit ==
    /\ dlq # NoRow
    /\ dlq.state # "error"
    /\ IF jobs[dlq.id] = NoRow
       THEN UNCHANGED <<jobs, runs>>
       ELSE /\ jobs' = [jobs EXCEPT ![dlq.id] = RetryRow(@, dlq)]
            /\ runs' = [runs EXCEPT ![dlq.id] = [a \in DOMAIN @ |-> 0]]
    /\ dlq' = NoRow
    /\ UNCHANGED <<config, now, pc, running, held, stores, hist, entries>>

\* a DELETE that also takes the completed jobs
PurgedOrCompleted(row) == row # NoRow /\ row.state \in {"dead", "completed"}

\* clear_dlq: WHERE state='dead'
Purged(row) == row # NoRow /\ row.state = "dead"

\* clear_dlq: DELETE FROM jobs WHERE state='dead', on the jobs table of the
\* queue.db of the working directory
clear_dlq ==
    /\ jobs' = [j \in DOMAIN jobs |-> IF Purged(jobs[j]) THEN NoRow ELSE jobs[j]]
    /\ runs' = [j \in DOMAIN jobs |->
                    IF Purged(jobs[j]) THEN [a \in DOMAIN runs[j] |-> 0] ELSE runs[j]]
    /\ UNCHANGED <<config, now, pc, running, held, dlq, stores, hist, entries>>

\* config set backoff-base <value>: _validate accepts integers >= 1
ConfigSet(value) ==
    /\ value >= 1
    /\ config # value
    /\ config' = value
    /\ UNCHANGED <<jobs, now, pc, running, held, dlq, runs, stores, hist, entries>>

\* ------------------------------------------------------------ src/worker.py
Live(w) == pc[w] \in {"top", "fetch", "selected", "committed", "exec"}

\* Worker.graceful_shutdown: the SIGINT / SIGTERM handler
graceful_shutdown(w) ==
    /\ Live(w)
    /\ running[w]
    /\ running' = [running EXCEPT ![w] = FALSE]
    /\ UNCHANGED <<jobs, config, now, pc, held, dlq, runs, stores, hist, entries>>

\* a loop that does not test the flag
RunLoopForever(w) ==
    /\ pc[w] = "top"
    /\ pc' = [pc EXCEPT ![w] = "fetch"]
    /\ UNCHANGED <<jobs, config, now, running, held, dlq, runs, stores, hist, entries>>

\* Worker.run: the `while self.running` test
RunLoop(w) ==
    /\ pc[w] = "top"
    /\ pc' = [pc EXCEPT ![w] = IF running[w] THEN "fetch" ELSE "exited"]
    /\ UNCHANGED <<jobs, config, now, running, held, dlq, runs, stores, hist, entries>>

\* a filter that passes 'pending' jobs only
ReadyPendingOnly == {j \in Present : /\ jobs[j].state = "pending"
                                     /\ (jobs[j].retry_at = NoTime \/ jobs[j].retry_at <= now)}

\* the filter of get_job_to_process: state in (pending, failed) and
\* (retry_at is NULL or retry_at <= now)
Ready == {j \in Present : /\ jobs[j].state \in {"pending", "failed"}
                          /\ (jobs[j].retry_at = NoTime \/ jobs[j].retry_at <= now)}

\* a query without the ORDER BY: any ready row
FirstReadyUnordered == Ready

\* order_by(created_at.asc()).first(): a row with the smallest created_at
FirstReady == {j \in Ready : \A k \in Ready : jobs[j].created_at <= jobs[k].created_at}

\* get_job_to_process, the query; no row: rollback, return None, and run
\* sleeps one second and loops
GetJobSelect(w) ==
    /\ pc[w] = "fetch"
    /\ \/ /\ FirstReady = {}
          /\ pc' = [pc EXCEPT ![w] = "top"]
          /\ UNCHANGED held
       \/ \E j \in FirstReady :
             /\ held' = [held EXCEPT ![w] = jobs[j]]
             /\ pc' = [pc EXCEPT ![w] = "selected"]
    /\ UNCHANGED <<jobs, config, now, running, dlq, runs, stores, hist, entries>>

\* a claim that counts the attempt
ClaimRowCounting(row, loaded, w) ==
    [row EXCEPT !.state = "processing",
                !.process_pid = IF loaded.process_pid = w THEN @ ELSE w,
                !.attempts = @ + 1]

\* get_job_to_process, job.state = 'processing'; job.process_pid = self.pid;
\* session.commit(): the flush is UPDATE jobs SET state, process_pid
\* WHERE id = ?, without process_pid when the loaded object already had
\* this worker's pid (the attribute did not change)
ClaimRow(row, loaded, w) ==
    [row EXCEPT !.state = "processing",
                !.process_pid = IF loaded.process_pid = w THEN @ ELSE w]

GetJobCommit(w) ==
    /\ pc[w] = "selected"
    /\ jobs' = [jobs EXCEPT ![held[w].id] = ClaimRow(@, held[w], w)]
    /\ pc' = [pc EXCEPT ![w] = "committed"]
    /\ UNCHANGED <<config, now, running, held, dlq, runs, stores, hist, entries>>

Bump(n) == IF n < MaxRuns THEN n + 1 ELSE n

\* get_job_to_process, after the commit: the commit expired the object, the
\* log line reloads it from the table; the session is closed and the object
\* is returned, and run hands it to process_job, which starts the command
GetJobRefresh(w) ==
    /\ pc[w] = "committed"
    /\ LET row == jobs[held[w].id] IN
         /\ held' = [held EXCEPT ![w] = row]
         /\ runs' = [runs EXCEPT ![row.id][row.attempts + 1] = Bump(@)]
    /\ pc' = [pc EXCEPT ![w] = "exec"]
    /\ UNCHANGED <<jobs, config, now, running, dlq, stores, hist, entries>>

\* what running the command can give
Outcomes(command) ==
    CASE command = "true" -> {"ok"}
      [] command = "false" -> {"fail"}
      [] command = "flaky" -> {"ok", "fail"}
      [] command = "hang" -> {"timeout"}
      [] command = "binary" -> {"error"}

\* a success that counts the attempt
SucceedCounting(job) ==
    [job EXCEPT !.state = "completed", !.process_pid = NoPid, !.last_error = "exit0",
                !.attempts = @ + 1]

\* process_job, returncode == 0
Succeed(job) ==
    [job EXCEPT !.state = "completed", !.process_pid = NoPid, !.last_error = "exit0"]

\* process_job, except Exception, on a job that was merged into the session:
\* one more attempt is counted, and a retry gets no retry_at
InternalError(job) ==
    LET attempts == job.attempts + 1 IN
    IF attempts <= job.max_retries
    THEN [job EXCEPT !.attempts = attempts, !.last_error = "internal",
                     !.state = "failed"]
    ELSE [job EXCEPT !.attempts = attempts, !.last_error = "internal",
                     !.state = "dead", !.process_pid = NoPid]

\* a failure whose retry is due at the time of the decision
FailNoDelay(job) ==
    LET attempts == job.attempts + 1 IN
    IF attempts <= job.max_retries
    THEN [job EXCEPT !.attempts = attempts, !.last_error = "exitN",
                     !.retry_at = now, !.state = "failed"]
    ELSE [job EXCEPT !.attempts = attempts, !.last_error = "exitN",
                     !.state = "dead", !.process_pid = NoPid]

\* process_job, returncode != 0; `now + timedelta(seconds=delay)` raises
\* OverflowError when the delay leaves the range of datetime, after attempts
\* and last_error were set, and the except Exception branch takes over
Fail(job) ==
    LET attempts == job.attempts + 1 IN
    IF attempts <= job.max_retries
    THEN IF Pow(ConfigGetBackoff, attempts) > MaxDelay
         THEN InternalError([job EXCEPT !.attempts = attempts, !.last_error = "exitN"])
         ELSE [job EXCEPT !.attempts = attempts, !.last_error = "exitN",
                          !.retry_at = now + Pow(ConfigGetBackoff, attempts),
                          !.state = "failed"]
    ELSE [job EXCEPT !.attempts = attempts, !.last_error = "exitN",
                     !.state = "dead", !.process_pid = NoPid]

\* process_job with an exit code: session.merge(job) copies the held object
\* onto the row, the branch changes it, the finally block commits
\* (the attempts counter is explored up to MaxAttempts)
ProcessJobExit(w, outcome) ==
    /\ outcome \in {"ok", "fail"}
    /\ outcome = "fail" => held[w].attempts < MaxAttempts
    /\ jobs' = [jobs EXCEPT ![held[w].id] =
                   IF outcome = "ok" THEN Succeed(held[w]) ELSE Fail(held[w])]
    /\ pc' = [pc EXCEPT ![w] = "top"]

\* process_job, except subprocess.TimeoutExpired: the held object was never
\* merged into the session, so the commit in finally writes nothing; with a
\* retry left, `now + timedelta(...)` reads the local `now` that the try
\* block had not assigned yet, and the error leaves process_job and run
ProcessJobTimeout(w, outcome) ==
    /\ outcome = "timeout"
    /\ pc' = [pc EXCEPT ![w] =
                 IF held[w].attempts + 1 <= held[w].max_retries THEN "raised" ELSE "top"]
    /\ UNCHANGED jobs

\* process_job, except Exception, with the exception raised by subprocess.run:
\* the held object was never merged into the session, the branch changes only
\* that object, the commit in finally writes nothing, and run goes on
ProcessJobError(w, outcome) ==
    /\ outcome = "error"
    /\ pc' = [pc EXCEPT ![w] = "top"]
    /\ UNCHANGED jobs

\* process_job wrote a new retry_at: the row became 'failed' after an exit
\* code, with retry_at = now + delay
Scheduled(row, new) ==
    /\ new # row
    /\ new # NoRow
    /\ new.state = "failed"
    /\ new.last_error = "exitN"

process_job(w) ==
    /\ pc[w] = "exec"
    /\ \E outcome \in Outcomes(held[w].command) :
          \/ ProcessJobExit(w, outcome)
          \/ ProcessJobTimeout(w, outcome)
          \/ ProcessJobError(w, outcome)
    /\ hist' = Recorded(LET j == held[w].id IN
                         IF Scheduled(jobs[j], jobs'[j])
                         THEN [hist EXCEPT ![j].delay = jobs'[j].retry_at - now]
                         ELSE hist)
    /\ held' = [held EXCEPT ![w] = NoRow]
    /\ UNCHANGED <<config, now, running, dlq, runs, stores, entries>>

\* the worker process is killed (SIGKILL, power loss) between its claim and
\* the commit of the outcome; a kill elsewhere leaves no trace in the table
Crash(w) ==
    /\ pc[w] \in {"committed", "exec"}
    /\ pc' = [pc EXCEPT ![w] = "crashed"]
    /\ held' = [held EXCEPT ![w] = NoRow]
    /\ UNCHANGED <<jobs, config, now, running, dlq, runs, stores, hist, entries>>

\* the clock advances
Tick ==
    /\ now < MaxTime
    /\ now' = now + 1
    /\ UNCHANGED <<jobs, config, pc, running, held, dlq, runs, stores, hist, entries>>

\* one step of worker w's loop
WorkerStep(w) ==
    \/ RunLoop(w)
    \/ GetJobSelect(w)
    \/ GetJobCommit(w)
    \/ GetJobRefresh(w)
    \/ process_job(w)

Next ==
    \/ \E id \in DOMAIN jobs, c \in Commands, m \in 0..MaxRetries : enqueue(id, c, m)
    \/ \E id \in DOMAIN jobs : DlqRetrySelect(id)
    \/ DlqRetryCommit
    \/ \E v \in BackoffBases : ConfigSet(v)
    \/ \E w \in DOMAIN pc : RunLoop(w)
    \/ \E w \in DOMAIN pc : GetJobSelect(w)
    \/ \E w \in DOMAIN pc : GetJobCommit(w)
    \/ \E w \in DOMAIN pc : GetJobRefresh(w)
    \/ \E w \in DOMAIN pc : process_job(w)
    \/ \E w \in DOMAIN pc : graceful_shutdown(w)
    \/ \E w \in DOMAIN pc : Crash(w)
    \/ Tick

Spec == Init /\ [][Next]_vars

\* a worker process that is not killed keeps taking steps, the clock keeps
\* advancing, and a started `dlq retry` command runs to its commit
FairSpec ==
    /\ Spec
    /\ \A w \in Workers : WF_vars(WorkerStep(w))
    /\ WF_vars(Tick)
    /\ WF_vars(DlqRetryCommit)

\* ---------------------------------------------------------------- backoff
\* one worker and one job, with one retry more than above and a backoff base
\* whose first power already leaves the range of datetime
OneWorker == {1}
\* the values of 'max_retries' in the job data: `queuectl enqueue` stores the
\* number it is given, a negative one included
RetriesBackoff == -1..(MaxRetries + 1)
CommandsBackoff == Commands \union {"binary"}
BackoffBasesAll == BackoffBases \union {MaxDelay + 1}

InitOne ==
    /\ jobs = [j \in JobIds |-> NoRow]
    /\ config = 0
    /\ now = 0
    /\ pc = [w \in OneWorker |-> "top"]
    /\ running = [w \in OneWorker |-> TRUE]
    /\ held = [w \in OneWorker |-> NoRow]
    /\ dlq = NoRow
    /\ runs = [j \in JobIds |-> [a \in 1..(MaxAttempts + 1) |-> 0]]
    /\ sjobs = <<>>
    /\ fetched = [c \in Workers |-> NoJob]
    /\ out = None
    /\ entries = [k \in ALLOWED_KEYS |-> NoEntry]
    /\ hist = NoHistory

NextBackoff ==
    \/ \E id \in DOMAIN jobs, c \in CommandsBackoff, m \in RetriesBackoff : enqueue(id, c, m)
    \/ \E id \in DOMAIN jobs : DlqRetrySelect(id)
    \/ DlqRetryCommit
    \/ \E v \in BackoffBasesAll : ConfigSet(v)
    \/ \E w \in DOMAIN pc : RunLoop(w)
    \/ \E w \in DOMAIN pc : GetJobSelect(w)
    \/ \E w \in DOMAIN pc : GetJobCommit(w)
    \/ \E w \in DOMAIN pc : GetJobRefresh(w)
    \/ \E w \in DOMAIN pc : process_job(w)
    \/ Tick

BackoffSpec == InitOne /\ [][NextBackoff]_vars

\* ------------------------------------------------------------------ queue
\* one worker and two jobs, for the order in which the queue is served
TwoJobs == {1, 2}

InitTwo ==
    /\ jobs = [j \in TwoJobs |-> NoRow]
    /\ config = 0
    /\ now = 0
    /\ pc = [w \in OneWorker |-> "top"]
    /\ running = [w \in OneWorker |-> TRUE]
    /\ held = [w \in OneWorker |-> NoRow]
    /\ dlq = NoRow
    /\ runs = [j \in TwoJobs |-> [a \in 1..(MaxAttempts + 1) |-> 0]]
    /\ sjobs = <<>>
    /\ fetched = [c \in Workers |-> NoJob]
    /\ out = None
    /\ entries = [k \in ALLOWED_KEYS |-> NoEntry]
    /\ hist = NoHistory

NextQueue ==
    \/ \E id \in DOMAIN jobs, c \in Commands, m \in 0..MaxRetries : enqueue(id, c, m)
    \/ \E id \in DOMAIN jobs : DlqRetrySelect(id)
    \/ DlqRetryCommit
    \/ \E w \in DOMAIN pc : RunLoop(w)
    \/ \E w \in DOMAIN pc : GetJobSelect(w)
    \/ \E w \in DOMAIN pc : GetJobCommit(w)
    \/ \E w \in DOMAIN pc : GetJobRefresh(w)
    \/ \E w \in DOMAIN pc : process_job(w)
    \/ \E w \in DOMAIN pc : graceful_shutdown(w)
    \/ Tick

QueueSpec == InitTwo /\ [][NextQueue]_vars

\* the worker process keeps taking steps and the clock keeps advancing
FairQueueSpec ==
    /\ QueueSpec
    /\ \A w \in OneWorker : WF_vars(WorkerStep(w))
    /\ WF_vars(Tick)

\* ------------------------------------------------------------- JobStorage
\* the jobs table of src/storage.py; its operations have no caller in the
\* repository that fixes their arguments, so these are drawn from small sets
StoreIds == {1, 2}
StoreCommands == {"true", ""}
Errors == {"null", "err"}
\* the attempts argument of update_job_completion: None, or a count
GivenAttempts == {NoTime, MaxRetries}

\* add_job: the row of a job dict; payload is the JSON text of the dict
StorageRow(id, command, max_retries) ==
    [id |-> id,
     payload |-> [id |-> id, command |-> command, state |-> "pending",
                  attempts |-> 0, max_retries |-> max_retries, created_at |-> now],
     command |-> command, state |-> "pending", attempts |-> 0,
     max_retries |-> max_retries, run_at |-> NoTime, created_at |-> now,
     last_error |-> "null"]

\* INSERT INTO jobs ... VALUES (...) with the replacing conflict clause the
\* statement does not have
InsertReplacing(id, row) ==
    /\ sjobs' = [k \in DOMAIN sjobs \union {id} |-> IF k = id THEN row ELSE sjobs[k]]
    /\ out' = None

\* INSERT INTO jobs ... VALUES (...): id is the PRIMARY KEY, so the INSERT
\* raises sqlite3.IntegrityError on an id that is in the table, and
\* `with self._conn` rolls back
Insert(id, row) ==
    IF id \in DOMAIN sjobs
    THEN /\ out' = Raised("IntegrityError")
         /\ UNCHANGED sjobs
    ELSE /\ sjobs' = [k \in DOMAIN sjobs \union {id} |-> IF k = id THEN row ELSE sjobs[k]]
         /\ out' = None

\* add_job
add_job(id, command, max_retries) ==
    /\ Insert(id, StorageRow(id, command, max_retries))
    /\ UNCHANGED <<queue, fetched>>

\* WHERE state='pending' AND (run_at IS NULL OR run_at <= CURRENT_TIMESTAMP)
StoragePending ==
    {k \in DOMAIN sjobs : /\ sjobs[k].state = "pending"
                          /\ (sjobs[k].run_at = NoTime \/ sjobs[k].run_at <= now)}

\* ORDER BY created_at LIMIT 1
StorageFirst ==
    {k \in StoragePending :
        \A l \in StoragePending : sjobs[k].created_at <= sjobs[l].created_at}

\* fetch_and_lock_pending, the SELECT: `row`, or None returned when there is
\* no row. The SELECT runs outside the transaction that the UPDATE opens
FetchSelect(c) ==
    /\ fetched[c] = NoJob
    /\ IF StorageFirst = {}
       THEN /\ out' = None
            /\ UNCHANGED fetched
       ELSE /\ \E k \in StorageFirst : fetched' = [fetched EXCEPT ![c] = k]
            /\ UNCHANGED out
    /\ UNCHANGED <<queue, sjobs>>

\* UPDATE jobs SET state='processing' ... WHERE id=?, without the guard on
\* the state
LockUnguarded(row) == TRUE

\* UPDATE jobs SET state='processing' ... WHERE id=? AND state='pending':
\* cur.rowcount is 1 when the row is still 'pending'
Lock(row) == row.state = "pending"

\* fetch_and_lock_pending, the UPDATE and the return: the parsed payload when
\* rowcount is 1, None when it is 0
FetchUpdate(c) ==
    /\ fetched[c] # NoJob
    /\ LET k == fetched[c]
       IN  IF Lock(sjobs[k])
           THEN /\ sjobs' = [sjobs EXCEPT ![k] = [@ EXCEPT !.state = "processing"]]
                /\ out' = sjobs[k].payload
           ELSE /\ out' = None
                /\ UNCHANGED sjobs
    /\ fetched' = [fetched EXCEPT ![c] = NoJob]
    /\ UNCHANGED queue

\* fetch_and_lock_pending of one caller
fetch_and_lock_pending(c) == FetchSelect(c) \/ FetchUpdate(c)

\* update_job_completion: UPDATE ... WHERE id=?; attempts is written when given
Completion(row, state, attempts, last_error) ==
    [row EXCEPT !.state = state, !.last_error = last_error,
                !.attempts = IF attempts = NoTime THEN @ ELSE attempts]

update_job_completion(id, state, attempts, last_error) ==
    /\ id \in DOMAIN sjobs
    /\ sjobs' = [sjobs EXCEPT ![id] = Completion(@, state, attempts, last_error)]
    /\ out' = None
    /\ UNCHANGED <<queue, fetched>>

\* increment_attempts_and_backoff: attempts + 1 and state 'failed'; run_at is
\* not written; the new attempts and max_retries are returned
increment_attempts_and_backoff(id) ==
    /\ id \in DOMAIN sjobs
    /\ sjobs[id].attempts < MaxAttempts
    /\ sjobs' = [sjobs EXCEPT ![id] = [@ EXCEPT !.attempts = @ + 1, !.state = "failed"]]
    /\ out' = [attempts |-> sjobs[id].attempts + 1, max_retries |-> sjobs[id].max_retries]
    /\ UNCHANGED <<queue, fetched>>

\* move_to_dead: UPDATE ... WHERE id=?
move_to_dead(id, last_error) ==
    /\ id \in DOMAIN sjobs
    /\ sjobs' = [sjobs EXCEPT ![id] = [@ EXCEPT !.state = "dead", !.last_error = last_error]]
    /\ out' = None
    /\ UNCHANGED <<queue, fetched>>

\* retry_dead_job, returning True: the job is 'dead'
retry_dead_job(id) ==
    /\ id \in DOMAIN sjobs
    /\ sjobs[id].state = "dead"
    /\ sjobs' = [sjobs EXCEPT ![id] = [@ EXCEPT !.state = "pending", !.attempts = 0,
                                                !.last_error = "null"]]
    /\ out' = None
    /\ UNCHANGED <<queue, fetched>>

InitStorage == InitOne

NextStorage ==
    \/ \E id \in StoreIds, c \in StoreCommands : add_job(id, c, MaxRetries)
    \/ \E c \in OneWorker : fetch_and_lock_pending(c)
    \/ \E id \in StoreIds, s \in {"completed", "failed"}, a \in GivenAttempts,
          e \in Errors : update_job_completion(id, s, a, e)
    \/ \E id \in StoreIds : increment_attempts_and_backoff(id)
    \/ \E id \in StoreIds, e \in Errors : move_to_dead(id, e)
    \/ \E id \in StoreIds : retry_dead_job(id)
    \/ Tick

StorageSpec == InitStorage /\ [][NextStorage]_vars

\* -------------------------------------------------------------------- dlq
\* the queue of one worker and two jobs with the commands on the dead letter
\* queue: `dlq retry` with its error path, and clear_dlq
DlqCommands == {"true", "false"}

NextDlq ==
    \/ \E id \in DOMAIN jobs, c \in DlqCommands : enqueue(id, c, 0)
    \/ \E id \in DOMAIN jobs : DlqRetrySelect(id)
    \/ \E id \in DOMAIN jobs : DlqRetryNotFound(id)
    \/ DlqRetryCommit
    \/ DlqRetryReturn
    \/ clear_dlq
    \/ \E w \in DOMAIN pc : RunLoop(w)
    \/ \E w \in DOMAIN pc : GetJobSelect(w)
    \/ \E w \in DOMAIN pc : GetJobCommit(w)
    \/ \E w \in DOMAIN pc : GetJobRefresh(w)
    \/ \E w \in DOMAIN pc : process_job(w)
    \/ Tick

DlqSpec == InitTwo /\ [][NextDlq]_vars

\* ------------------------------------------------------------------ fetch
\* JobStorage with two processes that add jobs and call
\* fetch_and_lock_pending, each on its own connection, and the way of a job
\* back to 'pending'
NextFetch ==
    \/ \E id \in StoreIds : add_job(id, "true", MaxRetries)
    \/ \E c \in Workers : fetch_and_lock_pending(c)
    \/ \E id \in StoreIds : move_to_dead(id, "err")
    \/ \E id \in StoreIds : retry_dead_job(id)
    \/ Tick

FetchSpec == InitStorage /\ [][NextFetch]_vars

\* ---------------------------------------------------------------- restart
\* one job that fails, a worker that is running and can be shut down, and a
\* worker process that is started later
LaterWorkers == Workers \ OneWorker

\* `queuectl worker start` where no additional worker is wanted: with a
\* worker active the command asks before it starts more, and returns on "no";
\* otherwise a new process constructs its Worker (running is True) and
\* enters run
Start(w) ==
    /\ \A v \in DOMAIN pc : ~Live(v)
    /\ pc[w] = "exited"
    /\ pc' = [pc EXCEPT ![w] = "top"]
    /\ running' = [running EXCEPT ![w] = TRUE]
    /\ UNCHANGED <<jobs, config, now, held, dlq, runs, stores, hist, entries>>

InitRestart ==
    /\ jobs = [j \in JobIds |-> NoRow]
    /\ config = 0
    /\ now = 0
    /\ pc = [w \in Workers |-> IF w \in OneWorker THEN "top" ELSE "exited"]
    /\ running = [w \in Workers |-> w \in OneWorker]
    /\ held = [w \in Workers |-> NoRow]
    /\ dlq = NoRow
    /\ runs = [j \in JobIds |-> [a \in 1..(MaxAttempts + 1) |-> 0]]
    /\ sjobs = <<>>
    /\ fetched = [c \in Workers |-> NoJob]
    /\ out = None
    /\ entries = [k \in ALLOWED_KEYS |-> NoEntry]
    /\ hist = NoHistory

NextRestart ==
    \/ \E id \in DOMAIN jobs, c \in DlqCommands : enqueue(id, c, MaxRetries)
    \/ \E v \in BackoffBases : ConfigSet(v)
    \/ \E w \in DOMAIN pc : RunLoop(w)
    \/ \E w \in DOMAIN pc : GetJobSelect(w)
    \/ \E w \in DOMAIN pc : GetJobCommit(w)
    \/ \E w \in DOMAIN pc : GetJobRefresh(w)
    \/ \E w \in DOMAIN pc : process_job(w)
    \/ \E w \in OneWorker : graceful_shutdown(w)
    \/ \E w \in LaterWorkers : Start(w)
    \/ Tick

RestartSpec == InitRestart /\ [][NextRestart]_vars

\* the later worker is started, started workers keep running and the clock
\* advances
FairRestartSpec ==
    /\ RestartSpec
    /\ \A w \in Workers : WF_vars(WorkerStep(w))
    /\ \A w \in LaterWorkers : WF_vars(Start(w))
    /\ WF_vars(Tick)

\* ------------------------------------------------------------------- list
\* `queuectl list` on the queue of one worker and two jobs
ListStates == {"all", "pending", "completed"}
ListLimits == {1, 2}

\* query.filter(Job.state == state), left out for 'all'
Listable(state) == {j \in Present : state = "all" \/ jobs[j].state = state}

\* order_by(Job.created_at.desc()).limit(limit).all(): the first `limit` rows
\* of the filtered rows, newest first; rows of equal created_at in any order
Listings(state, limit) ==
    LET rows == Listable(state)
        n == IF Cardinality(rows) < limit THEN Cardinality(rows) ELSE limit
    IN  {q \in [1..n -> rows] :
            /\ \A i, k \in 1..n : i < k =>
                  /\ q[i] # q[k]
                  /\ jobs[q[i]].created_at >= jobs[q[k]].created_at
            /\ \A j \in rows : (\A i \in 1..n : q[i] # j) =>
                  \A i \in 1..n : jobs[j].created_at <= jobs[q[i]].created_at}

\* list: the rows that are printed, with the options of the call
list(state, limit) ==
    /\ \E q \in Listings(state, limit) :
          out' = [listed |-> [i \in DOMAIN q |-> jobs[q[i]]],
                  state |-> state, limit |-> limit]
    /\ UNCHANGED <<queue, sjobs, fetched>>

NextList ==
    \/ \E id \in DOMAIN jobs : enqueue(id, "true", 0)
    \/ \E w \in DOMAIN pc : RunLoop(w)
    \/ \E w \in DOMAIN pc : GetJobSelect(w)
    \/ \E w \in DOMAIN pc : GetJobCommit(w)
    \/ \E w \in DOMAIN pc : GetJobRefresh(w)
    \/ \E w \in DOMAIN pc : process_job(w)
    \/ \E s \in ListStates, l \in ListLimits : list(s, l)
    \/ Tick

ListSpec == InitTwo /\ [][NextList]_vars

\* ---------------------------------------------------------------- history
\* one worker and one job that fails and has two retries, with the backoff
\* base changed at any time; the delays of the job's retries are recorded
InitHistory ==
    /\ jobs = [j \in JobIds |-> NoRow]
    /\ config = 0
    /\ now = 0
    /\ pc = [w \in OneWorker |-> "top"]
    /\ running = [w \in OneWorker |-> TRUE]
    /\ held = [w \in OneWorker |-> NoRow]
    /\ dlq = NoRow
    /\ runs = [j \in JobIds |-> [a \in 1..(MaxAttempts + 1) |-> 0]]
    /\ sjobs = <<>>
    /\ fetched = [c \in Workers |-> NoJob]
    /\ out = None
    /\ entries = [k \in ALLOWED_KEYS |-> NoEntry]
    /\ hist = [j \in JobIds |-> [base |-> 0, delay |-> 0]]

NextHistory ==
    \/ \E id \in DOMAIN jobs, c \in DlqCommands : enqueue(id, c, MaxRetries + 1)
    \/ \E v \in BackoffBases : ConfigSet(v)
    \/ \E w \in DOMAIN pc : RunLoop(w)
    \/ \E w \in DOMAIN pc : GetJobSelect(w)
    \/ \E w \in DOMAIN pc : GetJobCommit(w)
    \/ \E w \in DOMAIN pc : GetJobRefresh(w)
    \/ \E w \in DOMAIN pc : process_job(w)
    \/ Tick

HistorySpec == InitHistory /\ [][NextHistory]_vars

\* ------------------------------------------------------------ store retry
\* JobStorage with one process that adds jobs, fetches them and records
\* their failures
NextStorageRetry ==
    \/ \E id \in StoreIds : add_job(id, "true", MaxRetries)
    \/ \E c \in OneWorker : fetch_and_lock_pending(c)
    \/ \E id \in StoreIds : increment_attempts_and_backoff(id)
    \/ Tick

StorageRetrySpec == InitStorage /\ [][NextStorageRetry]_vars

\* the process keeps calling fetch_and_lock_pending and the clock advances
FairStorageRetrySpec ==
    /\ StorageRetrySpec
    /\ \A c \in OneWorker : WF_vars(fetch_and_lock_pending(c))
    /\ WF_vars(Tick)

\* ----------------------------------------------------------------- config
\* Config.set and Config.get on the config table, with the keys and the value
\* texts that `queuectl config set KEY VALUE` passes on
ConfigKeys == ALLOWED_KEYS \union {"poll-interval"}
ConfigValues == {"0", "1", " 1", "-1", "abc", "DEBUG", "TRACE"}

\* int(value) of a text: ValueError unless the text is a decimal integer,
\* surrounding blanks allowed
IsInt(value) == value \in {"0", "1", " 1", "-1"}
int(value) ==
    CASE value = "0" -> 0
      [] value = "1" -> 1
      [] value = " 1" -> 1
      [] value = "-1" -> -1

\* str(val) of an integer
str(val) ==
    CASE val = 0 -> "0"
      [] val = 1 -> "1"
      [] val = -1 -> "-1"

\* a validation that takes every value
ValidateNothing(key, value) ==
    [raised |-> FALSE,
     text |-> IF key \in {"max-retries", "backoff-base"} /\ IsInt(value)
              THEN str(int(value)) ELSE value]

\* Config._validate, followed by the str() of Config.set: the text to store,
\* or ValueError raised
Validate(key, value) ==
    CASE key = "max-retries" ->
            IF IsInt(value) /\ int(value) >= 0
            THEN [raised |-> FALSE, text |-> str(int(value))]
            ELSE [raised |-> TRUE]
      [] key = "backoff-base" ->
            IF IsInt(value) /\ int(value) >= 1
            THEN [raised |-> FALSE, text |-> str(int(value))]
            ELSE [raised |-> TRUE]
      [] key = "log-level" ->
            IF value \in {"DEBUG", "INFO", "WARNING", "ERROR"}
            THEN [raised |-> FALSE, text |-> value]
            ELSE [raised |-> TRUE]
      [] OTHER -> [raised |-> FALSE, text |-> value]

\* Config.set: ValueError for a key that is not allowed or a value that is
\* not valid, before the table is opened; else the entry is written
set(key, value) ==
    /\ IF key \notin ALLOWED_KEYS \/ Validate(key, value).raised
       THEN /\ out' = [op |-> "set", key |-> key, value |-> value, raised |-> TRUE]
            /\ UNCHANGED entries
       ELSE /\ out' = [op |-> "set", key |-> key, value |-> value, raised |-> FALSE]
            /\ entries' = [entries EXCEPT ![key] = Validate(key, value).text]
    /\ UNCHANGED <<jobs, config, now, pc, running, held, dlq, runs, hist, sjobs, fetched>>

\* Config.get: None for a key that is not allowed, int(value) of the entry for
\* the three numeric keys, the entry's text for log-level, the default
\* without an entry
Get(key) ==
    IF key \notin ALLOWED_KEYS THEN [raised |-> FALSE, value |-> "None"]
    ELSE IF entries[key] = NoEntry THEN [raised |-> FALSE, value |-> DEFAULTS[key]]
    ELSE IF key \in {"max-retries", "backoff-base", "worker-timeout"}
         THEN IF IsInt(entries[key])
              THEN [raised |-> FALSE, value |-> int(entries[key])]
              ELSE [raised |-> TRUE, value |-> "ValueError"]
         ELSE [raised |-> FALSE, value |-> entries[key]]

get(key) ==
    /\ out' = [op |-> "get", key |-> key, value |-> Get(key).value,
               raised |-> Get(key).raised]
    /\ UNCHANGED <<queue, sjobs, fetched>>

NextConfig ==
    \/ \E key \in ConfigKeys, value \in ConfigValues : set(key, value)
    \/ \E key \in ConfigKeys : get(key)

ConfigSpec == InitStorage /\ [][NextConfig]_vars

\* ------------------------------------------------------------------ claims
\* worker w has claimed job j and has not persisted an outcome yet
Holds(w, j) == pc[w] \in {"committed", "exec"} /\ held[w].id = j

RECURSIVE SumTo(_, _)
SumTo(f, n) == IF n = 0 THEN 0 ELSE f[n] + SumTo(f, n - 1)

\* executions of job j started since it was enqueued or last DLQ-retried
Execs(j) == SumTo(runs[j], MaxAttempts + 1)

\* C1: a job is held by at most one worker at a time: between a worker's
\* claim of a job and the commit of its outcome no other worker gets that job
C1_OneHolder ==
    \A j \in Present : Cardinality({w \in Workers : Holds(w, j)}) <= 1

\* C2: no job is executed twice for the same attempt number
C2_NoDuplicateExecution ==
    \A j \in Present : \A a \in DOMAIN runs[j] : runs[j][a] <= 1

\* C3: a job whose worker died while it was 'processing' eventually returns
\* to 'pending', at the latest while another worker is still alive to run it
CrashedHolding(j) ==
    /\ jobs[j].state = "processing"
    /\ jobs[j].process_pid # NoPid
    /\ pc[jobs[j].process_pid] = "crashed"

C3_CrashedJobReturns ==
    \A j \in JobIds :
        CrashedHolding(j) ~> (jobs[j].state = "pending" \/ \A w \in Workers : ~Live(w))

\* C4: 'completed' is terminal, and 'dead' is left only by the DLQ retry
\* (dead -> pending)
C4_Terminal ==
    [][\A j \in Present :
          /\ jobs[j].state = "completed" => jobs'[j].state = "completed"
          /\ jobs[j].state = "dead" =>
                \/ jobs'[j].state = "dead"
                \/ jobs'[j].state = "pending" /\ dlq # NoRow /\ dlq' = NoRow]_vars

\* C5: the lock owner is non-null exactly when the job is 'processing'
C5_LockIffProcessing ==
    \A j \in Present : (jobs[j].process_pid # NoPid) <=> (jobs[j].state = "processing")

\* C6: attempts <= max_retries + 1 for every job
C6_AttemptsBounded ==
    \A j \in Present : jobs[j].attempts <= jobs[j].max_retries + 1

Persists(w, j) ==
    /\ pc[w] = "exec"
    /\ pc'[w] = "top"
    /\ held[w].id = j
    /\ jobs'[j] # jobs[j]

C9_AlwaysFailing ==
    \A j \in Present :
        jobs[j].command = "false" =>
            /\ Execs(j) <= jobs[j].max_retries + 1
            /\ jobs[j].state = "dead" => jobs[j].attempts = jobs[j].max_retries + 1

\* C10: an execution that exceeds the timeout is persisted as a failed
\* attempt: when the worker leaves process_job the job is 'failed' or 'dead'
\* and last_error names the timeout
C10_TimeoutPersisted ==
    [][\A w \in Workers :
          (pc[w] = "exec" /\ held[w].command = "hang" /\ pc'[w] \in {"top", "raised"})
              => /\ jobs'[held[w].id].state \in {"failed", "dead"}
                 /\ jobs'[held[w].id].last_error = "timeout"]_vars

\* worker w persists an outcome of job j that is not a success and leaves the
\* job where a later claim can take it
RetryDecision(w, j) ==
    /\ pc[w] = "exec" /\ pc'[w] # "exec"
    /\ held[w].id = j
    /\ jobs'[j] # jobs[j]
    /\ jobs'[j].state \in {"pending", "failed"}

\* C11: every retry decision applies the exponential backoff: a job that goes
\* back to a claimable state after an execution that did not succeed is not
\* claimable before the time of the decision plus backoff_base^attempts
C11_RetryBackoff ==
    [][\A w \in DOMAIN pc : \A j \in DOMAIN jobs :
        RetryDecision(w, j) =>
            jobs'[j].retry_at >= now + Pow(ConfigGetBackoff, jobs'[j].attempts)]_vars

\* the query of worker w's claim returns job j
Selects(w, j) == pc[w] = "fetch" /\ pc'[w] = "selected" /\ held'[w].id = j

\* C12 as stated: a claim takes the claimable job with the smallest
\* created_at, and of two claimable jobs with equal created_at the one with
\* the smaller id
C12_FifoById ==
    [][\A w \in DOMAIN pc : \A j \in DOMAIN jobs :
        Selects(w, j) =>
            /\ j \in Ready
            /\ \A k \in Ready :
                \/ jobs[j].created_at < jobs[k].created_at
                \/ jobs[j].created_at = jobs[k].created_at /\ j <= k]_vars

\* C12: the query of a claim returns a job with the smallest created_at among
\* the jobs that are ready when it runs ('pending' or 'failed', retry_at
\* unset or not after now), and returns none only when no job is ready; jobs
\* of equal created_at are not ordered by id
C12_Fifo ==
    [][\A w \in DOMAIN pc :
        /\ \A j \in DOMAIN jobs :
            Selects(w, j) =>
                /\ j \in Ready
                /\ \A k \in Ready : jobs[j].created_at <= jobs[k].created_at
        /\ (pc[w] = "fetch" /\ pc'[w] = "top") => Ready = {}]_vars

\* the query of a claim has passed over a ready job that was created later
C12_Witness ==
    \E w \in DOMAIN pc : \E k \in Ready :
        /\ pc[w] = "selected"
        /\ jobs[held[w].id] = held[w]
        /\ k # held[w].id
        /\ held[w].created_at < jobs[k].created_at


\* C13: a worker that exits through shutdown leaves no job it claimed in
\* 'processing': the execution in flight is finished and its outcome is
\* committed before the loop is left
C13_ShutdownLeavesNoJob ==
    \A w \in DOMAIN pc : \A j \in Present :
        pc[w] = "exited" => ~(jobs[j].state = "processing" /\ jobs[j].process_pid = w)

\* claims worker w can still commit before it is back at the test of the loop
ClaimsLeft(w) == IF pc[w] \in {"fetch", "selected"} THEN 1 ELSE 0

\* C14: the shutdown flag is monotone and effective: once cleared it stays
\* cleared; a worker whose flag is cleared commits at most one more claim
\* (that of the loop iteration it is in), leaves the loop at its next test
\* and stays out; every worker whose flag is cleared ends
C14_ShutdownEffective ==
    /\ [][\A w \in DOMAIN pc :
            ~running[w] =>
                /\ ~running'[w]
                /\ ClaimsLeft(w)' <= ClaimsLeft(w)
                /\ (pc[w] = "selected" /\ pc'[w] = "committed") => ClaimsLeft(w)' = 0
                /\ pc[w] = "top" => pc'[w] \in {"top", "exited"}
                /\ pc[w] = "exited" => pc'[w] = "exited"]_vars
    /\ \A w \in OneWorker : ~running[w] ~> pc[w] \in {"exited", "raised"}

\* the flag was cleared while the query of a claim had returned a job: the
\* commit of that claim comes after the flag
C14_Witness ==
    \E w \in DOMAIN pc : ~running[w] /\ pc[w] = "selected" /\ held[w] # NoRow

\* C15: the state machine is strict: an operation of the store that persists
\* an outcome (complete, retry, bury) changes a row only when the job is
\* 'processing'; applied to any other job, an already dead one included, it
\* is rejected and leaves the row as it was
C15_StrictOutcomes ==
    [][\A id \in DOMAIN sjobs :
        (id \in DOMAIN sjobs' /\ sjobs'[id] # sjobs[id]
            /\ sjobs'[id].state \in {"completed", "failed", "dead"})
        => sjobs[id].state = "processing"]_vars

\* the commit of a `dlq retry` that loaded job id, on a row that is there
RetryCommits(id) ==
    /\ dlq # NoRow /\ dlq.state # "error" /\ dlq.id = id
    /\ dlq' = NoRow
    /\ jobs[id] # NoRow

InDlq(id) == id \in Present /\ jobs[id].state = "dead"

\* a `dlq retry` of job id reports "not found"
RetryFails(id) == dlq = NoRow /\ dlq' # NoRow /\ dlq'.state = "error" /\ dlq'.id = id

\* the query of a `dlq retry` of job id returns the job
RetryFinds(id) == dlq = NoRow /\ dlq' # NoRow /\ dlq'.state # "error" /\ dlq'.id = id

\* C17: a DLQ retry of a job that is missing or not 'dead' reports failure and
\* changes nothing, and only such a retry fails; after the commit of a DLQ
\* retry the job is not 'dead', so that a second retry of the same id fails
\* and leaves the job as the first one left it
C17_RetryOnlyDead ==
    [][\A id \in DOMAIN jobs :
        /\ RetryFails(id) => (~InDlq(id) /\ jobs' = jobs)
        /\ RetryFinds(id) => (InDlq(id) /\ jobs' = jobs)
        /\ RetryCommits(id) => ~InDlq(id)']_vars

\* the second of two DLQ retries of a job has reported failure: the job is as
\* the first retry left it
C17_Witness ==
    /\ dlq # NoRow
    /\ dlq.state = "error"
    /\ jobs[dlq.id] # NoRow
    /\ jobs[dlq.id].state = "pending"
    /\ jobs[dlq.id].attempts = 0
    /\ jobs[dlq.id].last_error = "exitN"

\* C19: rows are destroyed only by the purge of the dead letter queue, which
\* removes dead rows only: a step that removes a row removes all the dead
\* rows and leaves every other row present and unchanged, and no step of any
\* other operation reduces the set of job ids
C19_OnlyPurgeDeletes ==
    [][\A id \in Present :
        jobs'[id] = NoRow =>
            /\ jobs[id].state = "dead"
            /\ \A k \in Present :
                IF jobs[k].state = "dead" THEN jobs'[k] = NoRow ELSE jobs'[k] = jobs[k]
            /\ UNCHANGED <<config, now, pc, running, held, dlq>>]_vars

\* the purge has removed a dead job that a `dlq retry` had loaded, and has
\* left a job that was not dead
C19_Witness ==
    /\ dlq # NoRow
    /\ dlq.state = "dead"
    /\ jobs[dlq.id] = NoRow
    /\ \E k \in Present : jobs[k].state # "dead"

\* C20: a successful enqueue adds exactly one row, with state 'pending',
\* attempts 0, no lock owner, no error and retry_at unset (or the enqueue
\* time), and leaves the rows that exist as they were; the new job is ready
\* at once, and is among the jobs the next claim takes first when no ready
\* job is older
C20_EnqueueAddsPending ==
    [][\A id \in DOMAIN jobs :
        (jobs[id] = NoRow /\ jobs'[id] # NoRow) =>
            /\ jobs'[id].id = id
            /\ jobs'[id].state = "pending"
            /\ jobs'[id].attempts = 0
            /\ jobs'[id].process_pid = NoPid
            /\ jobs'[id].last_error = "null"
            /\ jobs'[id].created_at = now
            /\ jobs'[id].retry_at \in {NoTime, now}
            /\ \A k \in DOMAIN jobs \ {id} : jobs'[k] = jobs[k]
            /\ id \in Ready'
            /\ (\A k \in Ready' : jobs'[k].created_at >= jobs'[id].created_at)
                   => id \in FirstReady']_vars

\* a job was enqueued while an older job was in the table, and is ready
C20_Witness ==
    \E j \in Present : \E k \in Ready :
        /\ jobs[j].created_at < jobs[k].created_at
        /\ jobs[k].state = "pending"
        /\ jobs[k].attempts = 0
        /\ jobs[k].last_error = "null"

\* job j is back in the queue after a DLQ retry: only a retry leaves a
\* 'pending' row that carries an error
Retried(j) == j \in Present /\ jobs[j].state = "pending" /\ jobs[j].last_error # "null"

\* no worker keeps running; or the model's bounds stop the run: a worker is
\* at the bound on attempts, or job j waits for a time beyond the clock
Excused(j) ==
    \/ \A w \in DOMAIN pc : ~(Live(w) /\ running[w])
    \/ \E w \in DOMAIN pc : pc[w] = "exec" /\ held[w].attempts >= MaxAttempts
    \/ j \in Present /\ jobs[j].state = "failed" /\ jobs[j].retry_at > now

\* C18: after a successful DLQ retry the job is claimed again ('processing'),
\* provided a worker keeps running
C18_RetriedJobRuns ==
    \A j \in JobIds : Retried(j) ~> (jobs[j].state = "processing" \/ Excused(j))

\* C21: no enqueue entry point creates a job row with an empty command: an
\* enqueue with an empty or missing command is rejected and leaves the store
\* as it was
C21_NoEmptyCommand ==
    \A id \in DOMAIN sjobs : sjobs[id].command # ""

\* the fields of a row that its INSERT wrote and no later statement writes
Identity(row) ==
    <<row.id, row.payload, row.command, row.max_retries, row.created_at>>

\* C22: an enqueue with an id that is in the table fails and leaves the table
\* as it was; no step removes a row or replaces what its insert wrote, and
\* every row is stored under its own id
C22_DuplicateIdFails ==
    [][/\ out' = Raised("IntegrityError") => sjobs' = sjobs
       /\ \A id \in DOMAIN sjobs :
            /\ id \in DOMAIN sjobs'
            /\ Identity(sjobs'[id]) = Identity(sjobs[id])
            /\ sjobs'[id].id = id]_vars

\* a second add_job with the id of a stored row has failed, after the clock
\* moved on from that row's insert
C22_Witness ==
    /\ out = Raised("IntegrityError")
    /\ \E id \in DOMAIN sjobs : sjobs[id].created_at < now

\* C23: an enqueue with a malformed numeric field stores nothing, so no stored
\* job has a negative max_retries
C23_NumericFieldsValid ==
    \A id \in DOMAIN jobs : id \in Present => jobs[id].max_retries >= 0

\* worker w leaves process_job after subprocess.run raised an exception other
\* than TimeoutExpired on job j
InternalFailure(w, j) ==
    /\ pc[w] = "exec"
    /\ pc'[w] # "exec"
    /\ held[w] # NoRow
    /\ held[w].id = j
    /\ Outcomes(held[w].command) = {"error"}

\* C24: a worker that hits an internal error while it holds a claimed job
\* stores the job out of 'processing', as 'failed' for a retry or as 'dead',
\* with a last_error that describes the failure, and goes on with its loop
C24_InternalErrorStored ==
    [][\A w \in DOMAIN pc, j \in DOMAIN jobs :
         InternalFailure(w, j) =>
            /\ jobs'[j] # NoRow
            /\ jobs'[j].state \in {"failed", "dead"}
            /\ jobs'[j].last_error = "internal"
            /\ pc'[w] = "top"]_vars

\* a worker is told to shut down, or leaves its loop and exits
ShutdownStep ==
    \E w \in DOMAIN pc : \/ running[w] /\ ~running'[w]
                         \/ pc[w] # "exited" /\ pc'[w] = "exited"

\* job j waits for a retry whose time the clock can reach, and the first
\* worker has exited
RetryPendingAfterShutdown(j) ==
    /\ jobs[j] # NoRow
    /\ jobs[j].state = "failed"
    /\ jobs[j].retry_at # NoTime
    /\ jobs[j].retry_at <= MaxTime
    /\ \A w \in OneWorker : pc[w] = "exited"

\* job j is claimed by a worker that was started later
ClaimedLater(j) ==
    /\ jobs[j] # NoRow
    /\ jobs[j].state = "processing"
    /\ jobs[j].process_pid \in LaterWorkers

\* C25: a job scheduled for a retry survives the shutdown of the worker: the
\* shutdown and the exit leave every row as it was, and a worker started
\* later claims the job once its retry_at has passed
C25_RetrySurvivesShutdown ==
    /\ [][ShutdownStep => jobs' = jobs]_vars
    /\ \A j \in JobIds : RetryPendingAfterShutdown(j) ~> ClaimedLater(j)

\* the job failed once, its retry is due later than now, and the worker that
\* ran it has exited while no other worker was ever started
C25_Witness ==
    /\ \A w \in OneWorker : pc[w] = "exited"
    /\ \A w \in LaterWorkers : pc[w] = "exited"
    /\ \E j \in JobIds : /\ RetryPendingAfterShutdown(j)
                         /\ jobs[j].retry_at > now
                         /\ jobs[j].attempts = 1

\* C26: a listing holds at most `limit` jobs, all of them in the requested
\* state, ordered by created_at ascending
C26_ListAscending ==
    "listed" \in DOMAIN out =>
        LET q == out.listed IN
        /\ Len(q) <= out.limit
        /\ \A i \in DOMAIN q : out.state = "all" \/ q[i].state = out.state
        /\ \A i, k \in DOMAIN q : i < k => q[i].created_at <= q[k].created_at

\* C27: with a backoff base of 1 a failed job with retries left gets
\* retry_at = now, the time of the retry decision, at every attempt number
C27_BaseOneNoDelay ==
    [][\A w \in DOMAIN pc : \A j \in DOMAIN jobs :
        (RetryDecision(w, j) /\ ConfigGetBackoff = 1) =>
            jobs'[j].retry_at = now]_vars

\* C27 amended: with a backoff base of 1 a failed job with retries left gets
\* retry_at = now + 1 at every attempt number: the delay 1^attempts is one
\* second, so the job is not claimable at the time of the decision
C27_BaseOneConstantDelay ==
    [][\A w \in DOMAIN pc : \A j \in DOMAIN jobs :
        (RetryDecision(w, j) /\ ConfigGetBackoff = 1) =>
            /\ jobs'[j].retry_at = now + 1
            /\ j \notin Ready']_vars

\* a job waits for its second retry, scheduled under a base of 1
C27_Witness ==
    /\ ConfigGetBackoff = 1
    /\ \E j \in Present : /\ jobs[j].state = "failed"
                          /\ jobs[j].attempts = 2
                          /\ jobs[j].last_error = "exitN"
                          /\ jobs[j].retry_at = now + 1

\* caller c runs the UPDATE of its fetch_and_lock_pending on row k and returns
FetchReturns(c, k) ==
    /\ fetched[c] = k
    /\ k # NoJob
    /\ fetched'[c] = NoJob

\* C28: fetch_and_lock_pending is an atomic claim: a caller whose selected row
\* is still 'pending' at its UPDATE moves it to 'processing' and gets the job
\* back; a caller whose selected row was taken in between changes no row and
\* returns None, so of the callers that race for a pending job one succeeds
C28_AtomicClaim ==
    [][\A c \in Workers : \A k \in StoreIds :
        FetchReturns(c, k) =>
            IF sjobs[k].state = "pending"
            THEN /\ sjobs'[k].state = "processing"
                 /\ out' = sjobs[k].payload
                 /\ \A d \in Workers \ {c} : ~FetchReturns(d, k)
            ELSE /\ sjobs' = sjobs
                 /\ out' = None]_vars

\* two callers selected the same pending job; the first has run its UPDATE
\* and got the job, the second has its UPDATE still to run
C28_Witness ==
    \E k \in DOMAIN sjobs :
        /\ fetched[1] = NoJob
        /\ fetched[2] = k
        /\ sjobs[k].state = "processing"
        /\ out = sjobs[k].payload

\* worker w commits its claim of job j
ClaimCommit(w, j) ==
    /\ pc[w] = "selected"
    /\ pc'[w] = "committed"
    /\ held[w].id = j

\* C29: a claim moves to 'processing' only a job that is claimable at the
\* moment of the update: 'pending' or 'failed' with retry_at unset or not
\* after now, never one that is 'processing', 'completed' or 'dead'
C29_ClaimOnlyClaimable ==
    [][\A w \in DOMAIN pc : \A j \in DOMAIN jobs :
        ClaimCommit(w, j) => j \in Ready]_vars

\* C30: the backoff of a job is monotone and bounded: the delays of its
\* consecutive retries do not decrease, and no delay exceeds
\* backoff_base^(max_retries+1) for the base in force when the job was
\* enqueued, also when 'backoff-base' is set anew between two retries
C30_BackoffMonotoneBounded ==
    [][\A j \in JobIds :
        (hist[j].base # 0 /\ hist'[j] # hist[j]) =>
            /\ hist'[j].delay >= hist[j].delay
            /\ hist'[j].delay <= Pow(hist[j].base, jobs[j].max_retries + 1)]_vars

\* job k of JobStorage is recorded as 'failed' with retries left
FailedWithRetries(k) ==
    /\ k \in DOMAIN sjobs
    /\ sjobs[k].state = "failed"
    /\ sjobs[k].attempts <= sjobs[k].max_retries

\* job k of JobStorage is claimed
StorageClaimed(k) ==
    /\ k \in DOMAIN sjobs
    /\ sjobs[k].state = "processing"

\* C31: a job recorded as 'failed' with retries left behaves like a 'pending'
\* job with a later run_at: a process that keeps fetching eventually claims it
C31_FailedIsClaimed ==
    \A k \in StoreIds : FailedWithRetries(k) ~> StorageClaimed(k)

\* the jobs that are 'processing' with worker w as their process_pid
Owned(w) ==
    {j \in Present : jobs[j].state = "processing" /\ jobs[j].process_pid = w}

\* C32: a worker executes one job at a time: at most one job is 'processing'
\* with a given worker as its lock owner
C32_OneJobPerWorker ==
    \A w \in DOMAIN pc : Cardinality(Owned(w)) <= 1

\* C33: a successful claim returns the snapshot of the job after the update:
\* the returned record has state 'processing' and the attempts of the stored
\* row
C33_ClaimReturnsSnapshot ==
    [][\A c \in Workers : \A k \in StoreIds :
        (FetchReturns(c, k) /\ out' # None) =>
            /\ out'.state = "processing"
            /\ out'.attempts = sjobs'[k].attempts]_vars

\* the step is a Config.get of key k, or follows one without a further call
GetStep(k) ==
    /\ "op" \in DOMAIN out'
    /\ out'.op = "get"
    /\ out'.key = k

\* the call before the step was a Config.set of key k that succeeded
AfterSet(k) ==
    /\ "op" \in DOMAIN out
    /\ out.op = "set"
    /\ out.key = k
    /\ ~out.raised

\* C34: a Config.get that follows a successful Config.set of the same key
\* returns the value that was set, as an integer for the integer-valued keys,
\* and no Config.get of an allowed key raises; without an entry it returns
\* the default of the code
C34_ConfigRoundTrip ==
    [][\A k \in ALLOWED_KEYS :
        GetStep(k) =>
            /\ ~out'.raised
            /\ entries[k] = NoEntry => out'.value = DEFAULTS[k]
            /\ AfterSet(k) =>
                  IF k = "log-level"
                  THEN out'.value = out.value
                  ELSE IsInt(out.value) /\ out'.value = int(out.value)]_vars

\* the step is a Config.set, or follows one without a further call
SetStep ==
    /\ "op" \in DOMAIN out'
    /\ out'.op = "set"

\* a key that is not allowed, a negative max-retries, a backoff-base below 1,
\* a log-level that is none of the four levels
Rejected(key, value) ==
    \/ key \notin ALLOWED_KEYS
    \/ key = "max-retries" /\ IsInt(value) /\ int(value) < 0
    \/ key = "backoff-base" /\ IsInt(value) /\ int(value) < 1
    \/ key = "log-level" /\ value \notin {"DEBUG", "INFO", "WARNING", "ERROR"}

\* C35: a Config.set with an unknown key or with a value that fails the
\* validation raises an error, and a Config.set that raises leaves the config
\* table as it was, so that every Config.get returns what it returned before
C35_InvalidSetChangesNothing ==
    [][SetStep =>
        /\ Rejected(out'.key, out'.value) => out'.raised
        /\ out'.raised =>
              /\ entries' = entries
              /\ \A k \in ConfigKeys : Get(k)' = Get(k)]_vars

\* a negative max-retries was refused while an earlier entry is stored
C35_Witness ==
    /\ "op" \in DOMAIN out
    /\ out.op = "set"
    /\ out.key = "max-retries"
    /\ out.value = "-1"
    /\ out.raised
    /\ entries["max-retries"] = "1"

\* C36: the write of a DLQ retry (state 'pending', attempts 0) is applied only
\* to a row that is 'dead' at the moment of the write: it never resets a job
\* that was promoted and claimed since the retry read it
C36_RetryWritesDeadOnly ==
    [][\A j \in DOMAIN jobs : RetryCommits(j) => jobs[j].state = "dead"]_vars
====
